---- MODULE Spec2Model ----
(***************************************************************************)
(* Model of the virtual storage adapter of wasm-sqlite                     *)
(* (src/wasm/src/vfs.rs): the advisory lock state machine shared by all    *)
(* connections of one PagesVfs, and the page translation of the database   *)
(* handle onto the host page store.                                        *)
(***************************************************************************)
EXTENDS Integers, Sequences, FiniteSets, TLC

(* ------------------------------ bounds -------------------------------- *)

\* Number of connection slots that can be open at the same time.
MaxHandles == 3

Handles == 1..MaxHandles

\* The page size the adapter is instantiated with (the const generic
\* PAGE_SIZE; 4096 in the shipped build, small here).
PAGE_SIZE == 2

\* Page indices the engine writes to are below MaxPages.
MaxPages == 2

\* Longest chain of causes (Error::source) behind a recorded error.
MaxChain == 2

(* ---------------------------- lock kinds ------------------------------ *)

\* sqlite_vfs::LockKind, ordered None < Shared < Reserved < Pending < Exclusive.
LockKinds == {"none", "shared", "reserved", "pending", "exclusive"}

Rank(k) ==
    CASE k = "none"      -> 0
      [] k = "shared"    -> 1
      [] k = "reserved"  -> 2
      [] k = "pending"   -> 3
      [] k = "exclusive" -> 4

\* LockState.write : Option<bool>; None, Some(false), Some(true).
WriteIntents == {"unset", "reserved", "exclusive"}

\* Database names and open kinds offered to PagesVfs::open.
DbNames == {"main.db", "main.db3", "other.db"}

OpenKinds == {"MainDb", "MainJournal", "TempDb", "Wal"}

\* The values of a byte (u8), cut down to two.
Byte == {0, 1}

\* [u8; PAGE_SIZE]
Page == [1..PAGE_SIZE -> Byte]

\* The all-zero buffer `[0u8; PAGE_SIZE]`.
ZeroPage == [i \in 1..PAGE_SIZE |-> 0]

\* The host store holds nothing at an index.
NoPage == <<>>

PageIndices == 0..(MaxPages - 1)

VARIABLES
    live,    \* the set of open Connection values (handles not yet dropped)
    lock,    \* lock[h]: Connection.lock of handle h ("none" for a free slot)
    read,    \* LockState.read
    write,   \* LockState.write
    last,    \* the last lock/open/close call: inputs, result, state before it
    pages,   \* the host page store: pages[i] is page i, or NoPage
    io,      \* the last page call: inputs, result, store before it
    last_error,   \* lib.rs Connection.last_error: NoError or an error
    failedSince,  \* history: an execute or query failed since the last
                  \* conn_last_error call (or since conn_new)
    br       \* the last boundary call: inputs, result, the call before it

lockVars == <<live, lock, read, write, last>>

pageVars == <<pages, io>>

bridgeVars == <<last_error, failedSince, br>>

vars == <<live, lock, read, write, last, pages, io, last_error, failedSince, br>>

(* ----------------------- Connection::lock ----------------------------- *)

\* One outcome of Connection::lock: the handle's kind, the LockState, and the
\* returned bool.
Outcome(k, r, w, ok) == [lock |-> k, read |-> r, write |-> w, ok |-> ok]

\* `lock_state.read -= 1` on a usize.  At 0 the subtraction overflows (panic
\* in a debug build, wrap in a release build); the model keeps the
\* mathematical result, so an underflow shows up as a negative read count.
Dec(r) == r - 1

\* A faulty None arm: a released shared lock stays counted as a reader.
LockNoneKeepsReaders(k, r, w) ==
    Outcome("none",
            r,
            IF k # "shared" /\ Rank(k) > Rank("shared") THEN "unset" ELSE w,
            TRUE)

\* A faulty None arm: a released writer leaves its write intent behind.
LockNoneKeepsIntent(k, r, w) ==
    Outcome("none", IF k = "shared" THEN Dec(r) ELSE r, w, TRUE)

\* A faulty None arm: the read count is decremented whatever is released.
LockNoneAlwaysDecrements(k, r, w) ==
    Outcome("none",
            Dec(r),
            IF k # "shared" /\ Rank(k) > Rank("shared") THEN "unset" ELSE w,
            TRUE)

\* LockKind::None arm.
LockNone(k, r, w) ==
    Outcome("none",
            IF k = "shared" THEN Dec(r) ELSE r,
            IF k # "shared" /\ Rank(k) > Rank("shared") THEN "unset" ELSE w,
            TRUE)

\* A faulty Shared arm: a downgrading writer leaves its write intent behind.
LockSharedKeepsIntent(k, r, w) ==
    IF w = "exclusive" /\ Rank(k) <= Rank("shared")
    THEN Outcome(k, r, w, FALSE)
    ELSE Outcome("shared", r + 1, w, TRUE)

\* A faulty Shared arm: a new reader is let in under an exclusive write intent.
LockSharedIgnoresIntent(k, r, w) ==
    Outcome("shared",
            r + 1,
            IF Rank(k) > Rank("shared") THEN "unset" ELSE w,
            TRUE)

\* LockKind::Shared arm.
LockShared(k, r, w) ==
    IF w = "exclusive" /\ Rank(k) <= Rank("shared")
    THEN Outcome(k, r, w, FALSE)
    ELSE Outcome("shared",
                 r + 1,
                 IF Rank(k) > Rank("shared") THEN "unset" ELSE w,
                 TRUE)

\* A faulty Reserved arm: the requester need not hold shared.
LockReservedFromAny(k, r, w) ==
    IF w # "unset"
    THEN Outcome(k, r, w, FALSE)
    ELSE Outcome("reserved",
                 IF k = "shared" THEN Dec(r) ELSE r,
                 "reserved",
                 TRUE)

\* LockKind::Reserved arm.
LockReserved(k, r, w) ==
    IF w # "unset" \/ k # "shared"
    THEN Outcome(k, r, w, FALSE)
    ELSE Outcome("reserved",
                 IF k = "shared" THEN Dec(r) ELSE r,
                 "reserved",
                 TRUE)

\* A faulty Pending arm: the request is granted.
LockPendingGranted(k, r, w) == Outcome("pending", r, w, TRUE)

\* LockKind::Pending arm: cannot be requested directly.
LockPending(k, r, w) == Outcome(k, r, w, FALSE)

\* A faulty Exclusive arm: exclusive is granted whatever the read count.
LockExclusiveIgnoresReaders(k, r, w) ==
    IF w # "unset" /\ Rank(k) <= Rank("shared")
    THEN Outcome(k, r, w, FALSE)
    ELSE Outcome("exclusive",
                 IF k = "shared" THEN Dec(r) ELSE r,
                 "exclusive",
                 TRUE)

\* A faulty Exclusive arm: only an exclusive write intent refuses a reader,
\* a reserved one does not.
LockExclusiveBlockedByExclusiveOnly(k, r, w) ==
    IF w = "exclusive" /\ Rank(k) <= Rank("shared")
    THEN Outcome(k, r, w, FALSE)
    ELSE LET r1 == IF k = "shared" THEN Dec(r) ELSE r
         IN  IF r1 = 0
             THEN Outcome("exclusive", r1, "exclusive", TRUE)
             ELSE Outcome("pending", r1, "exclusive", FALSE)

\* A faulty Exclusive arm: the write intent is recorded before the check that
\* refuses the request.
LockExclusiveMarksBeforeCheck(k, r, w) ==
    IF w # "unset" /\ Rank(k) <= Rank("shared")
    THEN Outcome(k, r, "exclusive", FALSE)
    ELSE LET r1 == IF k = "shared" THEN Dec(r) ELSE r
         IN  IF r1 = 0
             THEN Outcome("exclusive", r1, "exclusive", TRUE)
             ELSE Outcome("pending", r1, "exclusive", FALSE)

\* LockKind::Exclusive arm.
LockExclusive(k, r, w) ==
    IF w # "unset" /\ Rank(k) <= Rank("shared")
    THEN Outcome(k, r, w, FALSE)
    ELSE LET r1 == IF k = "shared" THEN Dec(r) ELSE r
         IN  IF r1 = 0
             THEN Outcome("exclusive", r1, "exclusive", TRUE)
             ELSE Outcome("pending", r1, "exclusive", FALSE)

\* Connection::lock(&mut self, to): the same-kind early return, then the arm
\* of the requested kind, run under the LockState mutex.
ConnLock(k, r, w, to) ==
    IF k = to
    THEN Outcome(k, r, w, TRUE)
    ELSE CASE to = "none"      -> LockNone(k, r, w)
           [] to = "shared"    -> LockShared(k, r, w)
           [] to = "reserved"  -> LockReserved(k, r, w)
           [] to = "pending"   -> LockPending(k, r, w)
           [] to = "exclusive" -> LockExclusive(k, r, w)

\* A faulty drop: the connection goes away without releasing its lock.
DropWithoutRelease(k, r, w) == Outcome(k, r, w, TRUE)

\* impl Drop for Connection: release whatever lock is still held.
Drop(k, r, w) ==
    IF k # "none"
    THEN ConnLock(k, r, w, "none")
    ELSE Outcome(k, r, w, TRUE)

\* A faulty open: the open kind is checked before the name.
VfsOpenKindFirst(db, kind) ==
    IF kind # "MainDb" THEN "PermissionDenied"
    ELSE IF db # "main.db" THEN "NotFound"
    ELSE "Ok"

\* PagesVfs::open: the name check comes first, then the open kind.
VfsOpen(db, kind) ==
    IF db # "main.db" THEN "NotFound"
    ELSE IF kind # "MainDb" THEN "PermissionDenied"
    ELSE "Ok"

(* ------------------------- host page store ---------------------------- *)

\* Whether the host store holds page ix.
Present(p, ix) == ix \in PageIndices /\ p[ix] # NoPage

\* extern page_count(): one more than the highest index the store holds.
HostPageCount(p) ==
    IF \A i \in PageIndices : p[i] = NoPage
    THEN 0
    ELSE 1 + CHOOSE i \in PageIndices :
                 /\ p[i] # NoPage
                 /\ \A j \in PageIndices : p[j] # NoPage => j <= i

\* extern get_page(ix, ptr): the buffer contents the call can leave behind.
\* For a page the store holds, that page; for any other index the contents
\* are undefined: the host may leave the buffer as it was or write anything.
HostGetPage(p, ix, buf) ==
    IF Present(p, ix) THEN {p[ix]} ELSE Page \cup {buf}

\* extern put_page(ix, ptr)
HostPutPage(p, ix, data) == [p EXCEPT ![ix] = data]

\* extern del_page(ix)
HostDelPage(p, ix) == IF ix \in PageIndices THEN [p EXCEPT ![ix] = NoPage] ELSE p

(* ----------------------- page translation ----------------------------- *)

\* Connection::get_page(ix): a zeroed [u8; PAGE_SIZE] handed to the host.
GetPage(p, ix) == HostGetPage(p, ix, ZeroPage)

\* Connection::read_exact_at(buf, offset), with `data` the page get_page
\* returned: the error kind, and the bytes copied into buf.
ReadExactAt(data, len, offset) ==
    LET off == offset % PAGE_SIZE
    IN  IF Len(data) < len + off
        THEN [ok |-> FALSE, err |-> "UnexpectedEof", buf |-> <<>>]
        ELSE [ok |-> TRUE, err |-> "Ok", buf |-> SubSeq(data, off + 1, off + len)]

\* A faulty write_all_at: the offset is not checked, so a write inside a page
\* replaces the page it falls into.
WriteAllAtUnaligned(p, buf, offset) ==
    IF Len(buf) # PAGE_SIZE
    THEN [ok |-> FALSE, err |-> "Other", pages |-> p]
    ELSE [ok |-> TRUE, err |-> "Ok",
          pages |-> HostPutPage(p, offset \div PAGE_SIZE, buf)]

\* A faulty write_all_at: the page index is taken from the wrong half of the
\* offset, so every aligned write lands on page 0.
WriteAllAtWrongIndex(p, buf, offset) ==
    IF offset % PAGE_SIZE > 0
    THEN [ok |-> FALSE, err |-> "Other", pages |-> p]
    ELSE IF Len(buf) # PAGE_SIZE
    THEN [ok |-> FALSE, err |-> "Other", pages |-> p]
    ELSE [ok |-> TRUE, err |-> "Ok",
          pages |-> HostPutPage(p, offset % PAGE_SIZE, buf)]

\* Connection::write_all_at(buf, offset): the error kind and the store after.
WriteAllAt(p, buf, offset) ==
    IF offset % PAGE_SIZE > 0
    THEN [ok |-> FALSE, err |-> "Other", pages |-> p]
    ELSE IF Len(buf) # PAGE_SIZE
    THEN [ok |-> FALSE, err |-> "Other", pages |-> p]
    ELSE [ok |-> TRUE, err |-> "Ok",
          pages |-> HostPutPage(p, offset \div PAGE_SIZE, buf)]

\* The loop of set_len: `for i in (lo..hi).rev() { del_page(i) }`.
RECURSIVE DelPages(_, _, _)
DelPages(p, lo, hi) ==
    IF hi <= lo THEN p ELSE DelPages(HostDelPage(p, hi - 1), lo, hi - 1)

\* Connection::set_len(size): the store after the call (it always returns Ok).
SetLenPages(p, size) ==
    LET page_count == (size \div PAGE_SIZE)
                      + (IF size % PAGE_SIZE > 0 THEN 1 ELSE 0)
        current_page_count == HostPageCount(p)
    IN  IF page_count > 0 /\ page_count < current_page_count
        THEN DelPages(p, page_count, current_page_count)
        ELSE p

(* -------------------------- boundary bridge --------------------------- *)

\* Option<Box<dyn Error>>::None
NoError == [display |-> "", sources |-> <<>>]

\* Chains of causes of length n: what Error::source() yields, one by one.
Chains(n) == [1..n -> {"cause"}]

\* serde_json::Error of a malformed payload or of a failed row encoding: it
\* has no source.
JsonErrors ==
    {[display |-> d, sources |-> <<>>] : d \in {"serde_json", "next row"}}

\* rusqlite::Error: a message and zero or more causes.
EngineErrors ==
    {[display |-> "rusqlite", sources |-> c] :
         c \in UNION {Chains(n) : n \in 0..MaxChain}}

\* Payloads handed to conn_execute and conn_query.
Payloads == {"malformed", "valid"}

\* serde_json::from_slice::<Query>(payload)
ParseQuery(payload) ==
    IF payload = "malformed"
    THEN [ok |-> FALSE, err |-> [display |-> "serde_json", sources |-> <<>>]]
    ELSE [ok |-> TRUE, err |-> NoError]

\* The loop of conn_last_error over the chain of sources, cause i onwards:
\* a newline before every cause but the first, then "{i:>4}: {err}".
RECURSIVE FormatSources(_, _)
FormatSources(sources, i) ==
    IF sources = <<>>
    THEN <<>>
    ELSE (IF i > 0 THEN <<"\n">> ELSE <<>>)
         \o <<i, ": ", Head(sources)>>
         \o FormatSources(Tail(sources), i + 1)

\* The message conn_last_error builds from an error.
FormatError(err) ==
    <<err.display>>
    \o (IF err.sources # <<>> THEN <<"\n\nCaused by:\n">> ELSE <<>>)
    \o FormatSources(err.sources, 0)

\* A faulty conn_last_error: the error is read but left in place.
LastErrorPeek(le) ==
    IF le # NoError
    THEN [null |-> FALSE, msg |-> FormatError(le), last_error |-> le]
    ELSE [null |-> TRUE, msg |-> <<>>, last_error |-> le]

\* conn_last_error: last_error.take(), formatted, or a null pointer.
LastErrorTake(le) ==
    IF le # NoError
    THEN [null |-> FALSE, msg |-> FormatError(le), last_error |-> NoError]
    ELSE [null |-> TRUE, msg |-> <<>>, last_error |-> le]

\* `conn.last_error = Some(Box::new(err))` on a failure path of conn_execute
\* or conn_query.
RecordError(le, err) == err

(* ------------------------------ state --------------------------------- *)

\* The state a call started from.
Pre == [live |-> live, lock |-> lock, read |-> read, write |-> write]

Call(op, h, to, db, kind, ok, err) ==
    [op |-> op, h |-> h, to |-> to, db |-> db, kind |-> kind,
     ok |-> ok, err |-> err, pre |-> Pre]

\* PagesVfs::default(): LockState::default() and no connection yet.
Init ==
    /\ live = {}
    /\ lock = [h \in Handles |-> "none"]
    /\ read = 0
    /\ write = "unset"
    /\ last = [op |-> "init", h |-> 0, to |-> "none", db |-> "", kind |-> "",
               ok |-> TRUE, err |-> "Ok",
               pre |-> [live |-> {}, lock |-> [h \in Handles |-> "none"],
                        read |-> 0, write |-> "unset"]]
    /\ pages = [i \in PageIndices |-> NoPage]
    /\ io = [op |-> "init", offset |-> 0, len |-> 0, size |-> 0, ok |-> TRUE,
             err |-> "Ok", buf |-> <<>>, pre |-> [i \in PageIndices |-> NoPage]]
    /\ last_error = NoError
    /\ failedSince = FALSE
    /\ br = [op |-> "conn_new", payload |-> "", stage |-> "none", ok |-> TRUE,
             null |-> FALSE, msg |-> <<>>, failedBefore |-> FALSE,
             prev |-> [op |-> "none", ok |-> TRUE, null |-> FALSE]]

\* PagesVfs::open(db, opts) succeeding: a new Connection with lock = None that
\* shares the LockState.
Open ==
    \E db \in DbNames, kind \in OpenKinds, h \in Handles \ live :
        /\ VfsOpen(db, kind) = "Ok"
        /\ live' = live \cup {h}
        /\ lock' = [lock EXCEPT ![h] = "none"]
        /\ last' = Call("open", h, "none", db, kind, TRUE, "Ok")
        /\ UNCHANGED <<read, write>>
        /\ UNCHANGED <<pageVars, bridgeVars>>

\* PagesVfs::open(db, opts) failing: no Connection is made.
OpenFail ==
    \E db \in DbNames, kind \in OpenKinds :
        /\ VfsOpen(db, kind) # "Ok"
        /\ last' = Call("open", 0, "none", db, kind, FALSE, VfsOpen(db, kind))
        /\ UNCHANGED <<live, lock, read, write>>
        /\ UNCHANGED <<pageVars, bridgeVars>>

\* DatabaseHandle::lock(to) on the open connection h.
LockAs(h, to) ==
    LET o == ConnLock(lock[h], read, write, to)
    IN  /\ lock' = [lock EXCEPT ![h] = o.lock]
        /\ read' = o.read
        /\ write' = o.write
        /\ last' = Call("lock", h, to, "", "", o.ok, "Ok")
        /\ UNCHANGED live
        /\ UNCHANGED <<pageVars, bridgeVars>>

\* DatabaseHandle::lock(kind) on an open connection.
Lock == \E h \in live, to \in LockKinds : LockAs(h, to)

\* Closing the connection h: the Connection is dropped.
CloseAs(h) ==
    LET o == Drop(lock[h], read, write)
    IN  /\ live' = live \ {h}
        /\ lock' = [lock EXCEPT ![h] = "none"]
        /\ read' = o.read
        /\ write' = o.write
        /\ last' = Call("close", h, "none", "", "", TRUE, "Ok")
        /\ UNCHANGED <<pageVars, bridgeVars>>

\* Closing a connection: the Connection is dropped.
Close == \E h \in live : CloseAs(h)

Next == Open \/ OpenFail \/ Lock \/ Close

Spec == Init /\ [][Next]_vars

(* ------------------- locking under a busy handler --------------------- *)

\* Some open handle is pending.
SomePending == \E p \in live : lock[p] = "pending"

\* The busy handler of a pending handle h asks for exclusive again.
Retry(h) == h \in live /\ lock[h] = "pending" /\ LockAs(h, "exclusive")

\* A reader g finishes and releases its shared lock while a writer waits.
Release(g) ==
    g \in live /\ lock[g] = "shared" /\ SomePending /\ LockAs(g, "none")

\* Any lock request of a handle that is not pending.
OtherLock ==
    \E h \in live, to \in LockKinds : lock[h] # "pending" /\ LockAs(h, to)

\* A handle that is not pending is closed.
OtherClose == \E h \in live : lock[h] # "pending" /\ CloseAs(h)

RetryAny == \E h \in Handles : Retry(h)

ReleaseAny == \E g \in Handles : Release(g)

\* Connections come and go and ask for any lock, except that a pending handle
\* does nothing but retry its exclusive request.
NextRetry ==
    Open \/ OpenFail \/ OtherLock \/ OtherClose \/ RetryAny \/ ReleaseAny

\* Fairness: a pending handle's retry is eventually made, and a reader that
\* a pending handle waits for eventually releases.
SpecRetry ==
    /\ Init
    /\ [][NextRetry]_vars
    /\ \A h \in Handles : WF_vars(Retry(h)) /\ WF_vars(Release(h))

(* --------------------------- page actions ----------------------------- *)

\* Byte offsets the engine asks for: every page of the store and one beyond.
Offsets == 0..((MaxPages + 1) * PAGE_SIZE - 1)

\* Buffers the engine hands to write_all_at: a page, one byte less, one more.
WriteBufs ==
    UNION {[1..n -> Byte] : n \in (PAGE_SIZE - 1)..(PAGE_SIZE + 1)}

IoCall(op, offset, len, size, ok, err, buf) ==
    [op |-> op, offset |-> offset, len |-> len, size |-> size, ok |-> ok,
     err |-> err, buf |-> buf, pre |-> pages]

\* DatabaseHandle::read_exact_at(buf, offset)
Read ==
    \E offset \in Offsets, len \in 0..(PAGE_SIZE + 1) :
        \E data \in GetPage(pages, offset \div PAGE_SIZE) :
            LET r == ReadExactAt(data, len, offset)
            IN  /\ io' = IoCall("read", offset, len, 0, r.ok, r.err, r.buf)
                /\ UNCHANGED pages
                /\ UNCHANGED <<lockVars, bridgeVars>>

\* DatabaseHandle::write_all_at(buf, offset)
Write ==
    \E offset \in Offsets, buf \in WriteBufs :
        /\ offset \div PAGE_SIZE < MaxPages
        /\ LET r == WriteAllAt(pages, buf, offset)
           IN  /\ pages' = r.pages
               /\ io' = IoCall("write", offset, Len(buf), 0, r.ok, r.err, buf)
        /\ UNCHANGED <<lockVars, bridgeVars>>

\* DatabaseHandle::set_len(size)
SetLen ==
    \E size \in 0..((MaxPages + 1) * PAGE_SIZE) :
        /\ pages' = SetLenPages(pages, size)
        /\ io' = IoCall("set_len", 0, 0, size, TRUE, "Ok", <<>>)
        /\ UNCHANGED <<lockVars, bridgeVars>>

NextPages == Read \/ Write \/ SetLen

SpecPages == Init /\ [][NextPages]_vars

(* -------------------------- bridge actions ---------------------------- *)

BridgeCall(op, payload, stage, ok, null, msg) ==
    [op |-> op, payload |-> payload, stage |-> stage, ok |-> ok,
     null |-> null, msg |-> msg, failedBefore |-> failedSince,
     prev |-> [op |-> br.op, ok |-> br.ok, null |-> br.null]]

\* conn_execute succeeding: the payload parses and the engine runs it.
ConnExecuteOk ==
    /\ \E payload \in Payloads :
           /\ ParseQuery(payload).ok
           /\ br' = BridgeCall("execute", payload, "none", TRUE, FALSE, <<>>)
    /\ UNCHANGED <<last_error, failedSince>>
    /\ UNCHANGED <<lockVars, pageVars>>

\* conn_execute failing: the payload does not parse, or the engine rejects
\* the statement; the error is recorded and 0 returned.
ConnExecuteFail ==
    /\ \E payload \in Payloads :
           \E stage \in {"parse", "execute"}, err \in JsonErrors \cup EngineErrors :
               /\ IF ParseQuery(payload).ok
                  THEN stage = "execute" /\ err \in EngineErrors
                  ELSE stage = "parse" /\ err = ParseQuery(payload).err
               /\ last_error' = RecordError(last_error, err)
               /\ br' = BridgeCall("execute", payload, stage, FALSE, FALSE, <<>>)
    /\ failedSince' = TRUE
    /\ UNCHANGED <<lockVars, pageVars>>

\* conn_query succeeding: a JsonString pointer with the rows.
ConnQueryOk ==
    /\ \E payload \in Payloads :
           /\ ParseQuery(payload).ok
           /\ br' = BridgeCall("query", payload, "none", TRUE, FALSE, <<"rows">>)
    /\ UNCHANGED <<last_error, failedSince>>
    /\ UNCHANGED <<lockVars, pageVars>>

\* conn_query failing at one of its four stages: the error is recorded and a
\* null pointer returned.
ConnQueryFail ==
    /\ \E payload \in Payloads :
           \E stage \in {"parse", "prepare", "query", "serialize"},
              err \in JsonErrors \cup EngineErrors :
               /\ IF ParseQuery(payload).ok
                  THEN \/ stage \in {"prepare", "query"} /\ err \in EngineErrors
                       \/ stage = "serialize" /\ err.display = "next row"
                  ELSE stage = "parse" /\ err = ParseQuery(payload).err
               /\ last_error' = RecordError(last_error, err)
               /\ br' = BridgeCall("query", payload, stage, FALSE, TRUE, <<>>)
    /\ failedSince' = TRUE
    /\ UNCHANGED <<lockVars, pageVars>>

\* conn_last_error
ConnLastError ==
    /\ LET r == LastErrorTake(last_error)
       IN  /\ last_error' = r.last_error
           /\ br' = BridgeCall("last_error", "", "none", TRUE, r.null, r.msg)
    /\ failedSince' = FALSE
    /\ UNCHANGED <<lockVars, pageVars>>

NextBridge ==
    ConnExecuteOk \/ ConnExecuteFail \/ ConnQueryOk \/ ConnQueryFail
        \/ ConnLastError

SpecBridge == Init /\ [][NextBridge]_vars

(* ------------------------- claim vocabulary --------------------------- *)

\* The last call was lock(to) on an open handle.
LockCall(to) == last.op = "lock" /\ last.to = to

\* The kind the calling handle had when the last call started.
From == last.pre.lock[last.h]

\* The last call changed neither any handle's kind nor the LockState.
LockUnchanged ==
    /\ lock = last.pre.lock
    /\ read = last.pre.read
    /\ write = last.pre.write

\* The last call left the kind of every handle but the caller's alone.
OthersUnchanged ==
    \A g \in Handles : g # last.h => lock[g] = last.pre.lock[g]

Holders(k) == {h \in live : lock[h] = k}

(* -------------------------------- C1 ---------------------------------- *)

\* C1: in every reachable state at most one open handle has kind exclusive,
\* and whenever some handle has kind exclusive the read count is 0.
C1_MutualExclusion ==
    /\ Cardinality(Holders("exclusive")) <= 1
    /\ Holders("exclusive") # {} => read = 0

\* An exclusive holder exists while another open handle has just been refused
\* a shared or exclusive lock.
C1_Witness ==
    /\ Holders("exclusive") # {}
    /\ last.op = "lock"
    /\ last.to \in {"shared", "exclusive"}
    /\ ~last.ok
    /\ lock[last.h] # "exclusive"

(* -------------------------------- C2 ---------------------------------- *)

\* The effect the exclusive arm has when it does not refuse: a shared
\* requester leaves the readers, the write intent becomes exclusive, and the
\* handle is exclusive (success) if no reader is left, else pending (failure).
ExclusiveTaken ==
    /\ read = last.pre.read - (IF From = "shared" THEN 1 ELSE 0)
    /\ write = "exclusive"
    /\ OthersUnchanged
    /\ IF read = 0
       THEN lock[last.h] = "exclusive" /\ last.ok
       ELSE lock[last.h] = "pending" /\ ~last.ok

\* C2 as stated: an exclusive request from none or shared is refused exactly
\* when write_intent is already exclusive, and goes through in every other
\* case, also when write_intent is reserved.
C2_AsStated ==
    (LockCall("exclusive") /\ From \in {"none", "shared"}) =>
        IF last.pre.write = "exclusive"
        THEN ~last.ok /\ LockUnchanged
        ELSE ExclusiveTaken

\* C2 (amended): an exclusive request from none or shared is refused, with
\* nothing changed, exactly when any write intent (reserved or exclusive) is
\* recorded; otherwise it has the effect of ExclusiveTaken.
C2_ExclusiveFromReader ==
    (LockCall("exclusive") /\ From \in {"none", "shared"}) =>
        IF last.pre.write # "unset"
        THEN ~last.ok /\ LockUnchanged
        ELSE ExclusiveTaken

\* A reader asked for exclusive while another handle held reserved.
C2_Witness ==
    /\ LockCall("exclusive")
    /\ From = "shared"
    /\ last.pre.write = "reserved"
    /\ Holders("reserved") # {}
    /\ ~last.ok

(* -------------------------------- C3 ---------------------------------- *)

\* A handle is pending only if it was pending before the last call or the
\* last call was its own exclusive request.
PendingOnlyFromExclusive ==
    \A h \in Handles :
        (lock[h] = "pending" /\ last.pre.lock[h] # "pending") =>
            (LockCall("exclusive") /\ last.h = h)

\* C3 as stated: lock(pending) returns false from every current kind, pending
\* included, and changes nothing; pending is reached only through an
\* exclusive request.
C3_AsStated ==
    /\ LockCall("pending") => (~last.ok /\ LockUnchanged)
    /\ PendingOnlyFromExclusive

\* C3 (amended): lock(pending) changes nothing; it returns false from none,
\* shared, reserved and exclusive, and true (the same-kind no-op) from
\* pending; pending is reached only through an exclusive request.
C3_PendingRequest ==
    /\ LockCall("pending") =>
           /\ LockUnchanged
           /\ last.ok <=> (From = "pending")
    /\ PendingOnlyFromExclusive

\* lock(pending) was refused to a handle that holds a lock.
C3_Witness ==
    /\ LockCall("pending")
    /\ From \in {"shared", "reserved", "exclusive"}
    /\ ~last.ok

(* -------------------------------- C4 ---------------------------------- *)

\* C4: an exclusive request made while another handle holds shared and no
\* write intent is recorded fails and leaves the requester pending; an
\* exclusive request by a pending handle made when no handle holds shared
\* succeeds and makes it exclusive.
C4_BlockedWriterRetry ==
    /\ (/\ LockCall("exclusive")
        /\ last.pre.write = "unset"
        /\ \E g \in last.pre.live \ {last.h} : last.pre.lock[g] = "shared")
       => (~last.ok /\ lock[last.h] = "pending")
    /\ (/\ LockCall("exclusive")
        /\ From = "pending"
        /\ \A g \in last.pre.live : last.pre.lock[g] # "shared")
       => (last.ok /\ lock[last.h] = "exclusive")

\* A pending handle retried exclusive after the readers had gone and got it,
\* with the former reader still open.
C4_Witness ==
    /\ LockCall("exclusive")
    /\ From = "pending"
    /\ last.ok
    /\ lock[last.h] = "exclusive"
    /\ Cardinality(live) >= 2

(* -------------------------------- C5 ---------------------------------- *)

\* C5: a reserved request from a handle that is not reserved succeeds iff the
\* handle holds shared and no write intent is recorded; on success the read
\* count drops by 1, the write intent and the handle become reserved; on
\* failure nothing changes.
C5_ReservedRequest ==
    (LockCall("reserved") /\ From # "reserved") =>
        /\ last.ok <=> (From = "shared" /\ last.pre.write = "unset")
        /\ last.ok =>
               /\ read = last.pre.read - 1
               /\ write = "reserved"
               /\ lock[last.h] = "reserved"
               /\ OthersUnchanged
        /\ ~last.ok => LockUnchanged

\* A reader was granted reserved while another reader stayed.
C5_Witness ==
    /\ LockCall("reserved")
    /\ From = "shared"
    /\ last.ok
    /\ read > 0

(* -------------------------------- C6 ---------------------------------- *)

\* C6: a shared request from a handle that is not shared fails, changing
\* nothing, iff write_intent is exclusive and the handle's kind is none;
\* otherwise it succeeds, the read count grows by 1, the handle becomes
\* shared, and write_intent is cleared iff the handle held more than shared.
C6_SharedRequest ==
    (LockCall("shared") /\ From # "shared") =>
        /\ ~last.ok <=> (last.pre.write = "exclusive" /\ From = "none")
        /\ ~last.ok => LockUnchanged
        /\ last.ok =>
               /\ read = last.pre.read + 1
               /\ lock[last.h] = "shared"
               /\ OthersUnchanged
               /\ write = IF From \in {"reserved", "pending", "exclusive"}
                          THEN "unset"
                          ELSE last.pre.write

\* A writer downgraded to shared and the write intent was cleared.
C6_Witness ==
    /\ LockCall("shared")
    /\ From \in {"reserved", "pending", "exclusive"}
    /\ last.ok
    /\ last.pre.write # "unset"
    /\ write = "unset"

(* -------------------------------- C7 ---------------------------------- *)

\* C7: a request for none always succeeds and leaves the handle at none; from
\* shared the read count drops by 1 and write_intent stays; from reserved,
\* pending or exclusive write_intent is cleared and the read count stays.
C7_NoneRequest ==
    LockCall("none") =>
        /\ last.ok
        /\ lock[last.h] = "none"
        /\ OthersUnchanged
        /\ From = "none" => (read = last.pre.read /\ write = last.pre.write)
        /\ From = "shared" =>
               (read = last.pre.read - 1 /\ write = last.pre.write)
        /\ From \in {"reserved", "pending", "exclusive"} =>
               (read = last.pre.read /\ write = "unset")

\* A writer released to none while a reader was present.
C7_Witness ==
    /\ LockCall("none")
    /\ From \in {"reserved", "pending"}
    /\ read > 0
    /\ write = "unset"

(* -------------------------------- C8 ---------------------------------- *)

\* C8: closing a handle leaves the LockState as a lock(none) request by that
\* handle would have, and once no handle is open the read count is 0 and no
\* write intent is recorded.
C8_CloseReleases ==
    /\ last.op = "close" =>
           LET o == ConnLock(From, last.pre.read, last.pre.write, "none")
           IN  read = o.read /\ write = o.write /\ OthersUnchanged
    /\ live = {} => (read = 0 /\ write = "unset")

\* The last open handle was closed while it still held a lock.
C8_Witness ==
    /\ last.op = "close"
    /\ From # "none"
    /\ live = {}

(* -------------------------------- C9 ---------------------------------- *)

\* ceil(size / PAGE_SIZE)
CeilPages(size) == (size + PAGE_SIZE - 1) \div PAGE_SIZE

\* C9: set_len(n) deletes exactly the pages with index >= ceil(n / PAGE_SIZE),
\* and none below, whenever that is smaller than the page count (n = 0
\* included), and deletes nothing otherwise.
C9_Truncation ==
    io.op = "set_len" =>
        LET n == CeilPages(io.size)
        IN  IF n < HostPageCount(io.pre)
            THEN pages = [i \in PageIndices |->
                             IF i >= n THEN NoPage ELSE io.pre[i]]
            ELSE pages = io.pre

(* -------------------------------- C10 --------------------------------- *)

\* C10: read_exact_at fails with UnexpectedEof whenever the page addressed is
\* not in the store (index >= page_count) or is shorter than
\* intra_offset + len(buffer); a read that succeeds has read a stored page.
\* (Stated for non-empty buffers, so that a violation shows bytes returned.)
C10_ReadMissingPage ==
    (io.op = "read" /\ io.len > 0) =>
        /\ (\/ io.offset \div PAGE_SIZE >= HostPageCount(io.pre)
            \/ PAGE_SIZE < (io.offset % PAGE_SIZE) + io.len)
           => (~io.ok /\ io.err = "UnexpectedEof")
        /\ io.ok => Present(io.pre, io.offset \div PAGE_SIZE)

(* -------------------------------- C11 --------------------------------- *)

\* C11: a write whose offset is not a multiple of PAGE_SIZE, or whose buffer
\* is not exactly PAGE_SIZE long, fails with the boundary error
\* (ErrorKind::Other) and leaves the host page store as it was.
C11_UnalignedWrite ==
    (/\ io.op = "write"
     /\ (io.offset % PAGE_SIZE # 0 \/ io.len # PAGE_SIZE))
    => (~io.ok /\ io.err = "Other" /\ pages = io.pre)

\* A page-sized write at an offset inside a stored page was refused.
C11_Witness ==
    /\ io.op = "write"
    /\ io.offset % PAGE_SIZE # 0
    /\ io.len = PAGE_SIZE
    /\ Present(io.pre, io.offset \div PAGE_SIZE)
    /\ io.buf # io.pre[io.offset \div PAGE_SIZE]
    /\ ~io.ok

(* -------------------------------- C12 --------------------------------- *)

\* C12: a successful write of a page-sized buffer b at offset i * PAGE_SIZE
\* stores b as page i and touches no other page; and a read of PAGE_SIZE
\* bytes at offset i * PAGE_SIZE of a stored page succeeds and returns that
\* page as stored, so that until page i is written or deleted again the
\* read returns b.
C12_RoundTrip ==
    /\ (io.op = "write" /\ io.ok) =>
           /\ io.offset % PAGE_SIZE = 0
           /\ pages[io.offset \div PAGE_SIZE] = io.buf
           /\ \A j \in PageIndices :
                  j # io.offset \div PAGE_SIZE => pages[j] = io.pre[j]
    /\ (/\ io.op = "read"
        /\ io.offset % PAGE_SIZE = 0
        /\ io.len = PAGE_SIZE
        /\ Present(io.pre, io.offset \div PAGE_SIZE))
       => (io.ok /\ io.buf = pages[io.offset \div PAGE_SIZE] /\ pages = io.pre)
    /\ \A i \in PageIndices :
           (pages[i] # io.pre[i]) => io.op \in {"write", "set_len"}

\* A whole-page read of page 1 returned the non-zero page written there while
\* page 0 holds a different page.
C12_Witness ==
    /\ io.op = "read"
    /\ io.ok
    /\ io.offset = PAGE_SIZE
    /\ io.len = PAGE_SIZE
    /\ Present(pages, 0)
    /\ Present(pages, 1)
    /\ io.buf = pages[1]
    /\ io.buf # ZeroPage
    /\ pages[0] # pages[1]

(* -------------------------------- C13 --------------------------------- *)

\* C13: conn_last_error returns a non-empty message iff an execute or query
\* call has failed since the previous conn_last_error call (or since the
\* connection was made); a failed query returns the null pointer; an error
\* is held exactly while such a failure is unreported.
C13_LastErrorOnce ==
    /\ br.op = "last_error" =>
           /\ ~br.null <=> br.failedBefore
           /\ ~br.null => Len(br.msg) > 0
           /\ br.null => br.msg = <<>>
           /\ last_error = NoError
    /\ (br.op = "query" /\ ~br.ok) => br.null
    /\ (br.op \in {"query", "execute"} /\ ~br.ok) => last_error # NoError
    /\ (last_error # NoError) <=> failedSince

\* A second conn_last_error right after one that returned a message: null.
C13_Witness ==
    /\ br.op = "last_error"
    /\ br.prev.op = "last_error"
    /\ ~br.prev.null
    /\ br.null

(* -------------------------------- C14 --------------------------------- *)

C15_TestNameOpens ==
    (last.op = "open" /\ last.db = "main.db3" /\ last.kind = "MainDb")
        => last.ok

(* -------------------------------- C16 --------------------------------- *)

\* While a handle is pending no other call raises the read count: a shared
\* request of a handle of kind none is refused, and only the pending handle
\* itself (by downgrading) can add a reader.
NoReaderWhilePending ==
    (\E p \in last.pre.live : last.pre.lock[p] = "pending") =>
        /\ (LockCall("shared") /\ From = "none") => ~last.ok
        /\ read > last.pre.read =>
               (last.op = "lock" /\ From = "pending")

\* C16: while some handle is pending no arriving reader gets shared, and, if
\* the readers it waits for release and it keeps retrying (SpecRetry), every
\* pending handle is eventually granted exclusive.
C16_PendingNotStarved ==
    /\ []NoReaderWhilePending
    /\ \A h \in Handles : (lock[h] = "pending") ~> (lock[h] = "exclusive")

\* A handle of kind none was refused shared while a handle was pending and a
\* reader was still in.
C16_Witness ==
    /\ LockCall("shared")
    /\ From = "none"
    /\ ~last.ok
    /\ SomePending
    /\ read > 0

(* -------------------------------- C17 --------------------------------- *)

\* lock(to) by h is denied in this state and changes nothing, so that the
\* same request made again in the same state is denied again.
Denied(h, to) ==
    LET o == ConnLock(lock[h], read, write, to)
    IN  ~o.ok /\ o.lock = lock[h] /\ o.read = read /\ o.write = write

\* w holds a lock above shared and s holds shared; w's retried exclusive
\* request is denied because of s, s's retried upgrade because of w, and
\* neither retry changes anything.
MutuallyBlocked(w, s) ==
    /\ w # s
    /\ Rank(lock[w]) > Rank("shared")
    /\ lock[s] = "shared"
    /\ Denied(w, "exclusive")
    /\ Denied(s, "reserved")
    /\ Denied(s, "exclusive")

\* C17 as stated: no reachable state has two handles that each hold a lock
\* which makes the other's retried upgrade request fail forever.
C17_AsStated ==
    \A w \in live, s \in live : ~MutuallyBlocked(w, s)

\* The handles other than the caller that held a lock above shared, and
\* those that held shared, when the last call started.
WritersBefore ==
    {g \in last.pre.live \ {last.h} :
         Rank(last.pre.lock[g]) > Rank("shared")}

ReadersBefore ==
    {g \in last.pre.live \ {last.h} : last.pre.lock[g] = "shared"}

\* The last call was an upgrade request (reserved or exclusive, above the
\* caller's kind) of a handle that held a lock.
UpgradeCall ==
    /\ last.op = "lock"
    /\ last.to \in {"reserved", "exclusive"}
    /\ From \in {"shared", "reserved", "pending"}
    /\ Rank(last.to) > Rank(From)

\* C17 (amended): an upgrade request of a handle that holds a lock succeeds
\* when no other handle holds a lock; a shared holder is denied, with nothing
\* changed, whenever another handle is above shared; a reserved or pending
\* holder is denied exclusive (and is pending afterwards, a pending one with
\* nothing changed) whenever another handle holds shared.  So a writer and a
\* reader that both keep retrying block each other for good.
C17_BlockedWhileHeld ==
    UpgradeCall =>
        /\ (WritersBefore = {} /\ ReadersBefore = {}) => last.ok
        /\ (From = "shared" /\ WritersBefore # {})
               => (~last.ok /\ LockUnchanged)
        /\ (From \in {"reserved", "pending"} /\ ReadersBefore # {})
               => /\ ~last.ok
                  /\ lock[last.h] = "pending"
                  /\ From = "pending" => LockUnchanged
        /\ (From \in {"reserved", "pending"} /\ ReadersBefore = {})
               => (last.ok /\ lock[last.h] = "exclusive")

\* A reader's retried reserved request was denied while a pending writer
\* waits for that reader: the two block each other.
C17_Witness ==
    /\ LockCall("reserved")
    /\ From = "shared"
    /\ ~last.ok
    /\ LockUnchanged
    /\ \E w \in live : MutuallyBlocked(w, last.h)

(* -------------------------------- C18 --------------------------------- *)

\* C18: the read count is the number of open handles whose kind is shared,
\* and so never goes below 0: no call decrements it at 0.
C18_ReadCountsShared ==
    /\ read = Cardinality(Holders("shared"))
    /\ read >= 0
    /\ read < last.pre.read => last.pre.read > 0

\* One of two readers has just left (by a lock request or a close) and the
\* count fell from 2 to 1.
C18_Witness ==
    /\ last.op \in {"lock", "close"}
    /\ From = "shared"
    /\ last.pre.read = 2
    /\ read = 1
    /\ Cardinality(Holders("shared")) = 1

(* -------------------------------- C19 --------------------------------- *)

\* The open handles whose kind is above shared.
Writers == {h \in live : Rank(lock[h]) > Rank("shared")}

\* C19: at most one open handle is above shared, and write mirrors it: unset
\* iff there is none, reserved iff its kind is reserved, exclusive iff its
\* kind is pending or exclusive.
C19_WriteIntentMirrors ==
    /\ Cardinality(Writers) <= 1
    /\ write = "unset" <=> Writers = {}
    /\ write = "reserved" <=> (\E h \in Writers : lock[h] = "reserved")
    /\ write = "exclusive"
           <=> (\E h \in Writers : lock[h] \in {"pending", "exclusive"})

\* A reserved handle asked for exclusive with a reader still in: it is now
\* pending and the write intent went from reserved to exclusive.
C19_Witness ==
    /\ LockCall("exclusive")
    /\ From = "reserved"
    /\ last.pre.write = "reserved"
    /\ lock[last.h] = "pending"
    /\ write = "exclusive"
    /\ Holders("shared") # {}

(* -------------------------------- C20 --------------------------------- *)

\* The caller was not refused by the write-intent check of the exclusive arm.
PassedIntentCheck ==
    ~(last.pre.write # "unset" /\ Rank(From) <= Rank("shared"))

\* C20: a lock request that returns false changes nothing, except an
\* exclusive request of a handle that is not pending and passes the
\* write-intent check while other readers remain: that one leaves the handle
\* pending with write = exclusive (a shared requester having left the
\* readers).  A pending handle's failed retry changes nothing.
C20_FailedRequestFrame ==
    (last.op = "lock" /\ ~last.ok) =>
        IF last.to = "exclusive" /\ From # "pending" /\ PassedIntentCheck
        THEN /\ lock[last.h] = "pending"
             /\ write = "exclusive"
             /\ read = last.pre.read - (IF From = "shared" THEN 1 ELSE 0)
             /\ read > 0
             /\ OthersUnchanged
        ELSE LockUnchanged

\* A pending handle retried exclusive with a reader still in: refused, and
\* nothing changed.
C20_Witness ==
    /\ LockCall("exclusive")
    /\ From = "pending"
    /\ ~last.ok
    /\ LockUnchanged
    /\ read > 0

====
